---- MODULE Spec2Model ----
(***************************************************************************)
(* A model of scraper.py: the link collector get_hrefs, the field          *)
(* extractor extract_dimensions, the writer save_as_csv and main.          *)
(*                                                                         *)
(* A Python str is a sequence of one-character strings.  A Python value    *)
(* that may be a str, an int or None is a record [kind, s, n].             *)
(***************************************************************************)
EXTENDS Integers, Sequences, FiniteSets, TLC

\* ------------------------------------------------------------------ bounds

\* Listing pages whose response is chosen freely; later pages follow the tail.
MaxPrefix == 2
\* Marker-class anchors on one freely chosen listing page.
MaxAnchors == 2
\* Product links handed to extract_dimensions when it is run on its own.
MaxHrefs == 3
\* Rows of a table handed to save_as_csv when it is run on its own.
MaxRows == 2
\* Calls of save_as_csv on the same table when it is run on its own.
MaxSaves == 2
\* Freely chosen listing pages of the site main runs against.
MaxMainPages == 1

\* ---------------------------------------------------------- Python values

None == [kind |-> "none", s |-> <<>>, n |-> 0]

PyStr(s) == [kind |-> "str", s |-> s, n |-> 0]

PyInt(n) == [kind |-> "int", s |-> <<>>, n |-> n]

Whitespace == {" ", "\n", "\t"}

Digits == <<"0", "1", "2", "3", "4", "5", "6", "7", "8", "9">>

UpperCase == <<"A", "B", "C", "D", "E", "F", "G", "H", "I", "J", "K", "L", "M",
               "N", "O", "P", "Q", "R", "S", "T", "U", "V", "W", "X", "Y", "Z",
               "Ä", "Å", "Ö">>

LowerCase == <<"a", "b", "c", "d", "e", "f", "g", "h", "i", "j", "k", "l", "m",
               "n", "o", "p", "q", "r", "s", "t", "u", "v", "w", "x", "y", "z",
               "ä", "å", "ö">>

\* str(n) of an int.
RECURSIVE str_nat(_)
str_nat(n) ==
    IF n < 10 THEN <<Digits[n + 1]>>
    ELSE str_nat(n \div 10) \o <<Digits[(n % 10) + 1]>>

str(n) == IF n < 0 THEN <<"-">> \o str_nat(0 - n) ELSE str_nat(n)

\* s.strip(): leading and trailing whitespace removed.
strip(s) ==
    LET keep == {i \in 1..Len(s) : s[i] \notin Whitespace}
    IN  IF keep = {} THEN <<>>
        ELSE LET lo == CHOOSE i \in keep : \A j \in keep : i <= j
                 hi == CHOOSE i \in keep : \A j \in keep : j <= i
             IN  SubSeq(s, lo, hi)

\* node.get_text(strip=True) of a node holding one text node.
get_text(raw) == strip(raw)

\* s.lower()
lower(s) ==
    [i \in 1..Len(s) |->
        IF \E u \in 1..Len(UpperCase) : UpperCase[u] = s[i]
        THEN LowerCase[CHOOSE u \in 1..Len(UpperCase) : UpperCase[u] = s[i]]
        ELSE s[i]]

\* s.replace(old, new) for one-character old and new.
replace(s, old, new) == [i \in 1..Len(s) |-> IF s[i] = old THEN new ELSE s[i]]

\* s.split(" ")[0]: the text before the first space, all of s if it has none.
split_first(s) ==
    LET sp == {i \in 1..Len(s) : s[i] = " "}
    IN  IF sp = {} THEN s
        ELSE SubSeq(s, 1, (CHOOSE i \in sp : \A j \in sp : i <= j) - 1)

DigitValue(c) == (CHOOSE d \in 1..10 : Digits[d] = c) - 1

IsDigit(c) == \E d \in 1..10 : Digits[d] = c

RECURSIVE digits_value(_, _)
digits_value(ds, acc) ==
    IF ds = <<>> THEN acc
    ELSE IF Head(ds) = "_" THEN digits_value(Tail(ds), acc)
    ELSE digits_value(Tail(ds), 10 * acc + DigitValue(Head(ds)))

\* int(tok): surrounding whitespace, an optional sign, then digits, single
\* underscores allowed between digits.  ok = FALSE stands for ValueError.
int(tok) ==
    LET t      == strip(tok)
        signed == t # <<>> /\ t[1] \in {"+", "-"}
        body   == IF signed THEN Tail(t) ELSE t
        wellformed ==
            /\ body # <<>>
            /\ \A i \in 1..Len(body) : IsDigit(body[i]) \/ body[i] = "_"
            /\ body[1] # "_" /\ body[Len(body)] # "_"
            /\ \A i \in 1..(Len(body) - 1) : ~(body[i] = "_" /\ body[i + 1] = "_")
        mag    == digits_value(body, 0)
    IN  IF ~wellformed THEN [ok |-> FALSE, val |-> 0]
        ELSE [ok |-> TRUE, val |-> IF signed /\ t[1] = "-" THEN 0 - mag ELSE mag]

\* ------------------------------------------------------------------ state

VARIABLES
    pc,      \* where the run is: the function executing, or how it ended
    site,    \* the listing site: what each listing URL answers
    hrefs,   \* get_hrefs: the links accumulated; then the list handed on
    page,    \* get_hrefs: position in urls of the next listing page
    i,       \* extract_dimensions: position in hrefs of the next link
    result,  \* extract_dimensions: the dict of columns; then the table written
    fs,      \* the file system: the directory data/ and the CSV file
    out,     \* what tqdm.write has printed, in order
    net,     \* every requests.get issued, in order, with what came of it
    soup,    \* the nodes the selectors matched in the last response parsed
    err,     \* the function an uncaught exception left from, or "none"
    saves    \* calls of save_as_csv that returned

vars == <<pc, site, hrefs, page, i, result, fs, out, net, soup, err, saves>>

\* A line printed by tqdm.write: the message and the values formatted into it.
Line(kind, href, text, key, n) ==
    [kind |-> kind, href |-> href, text |-> text, key |-> key, n |-> n]

\* The nodes matched in a parsed response: the product anchors of a listing
\* page, the property and the measurement nodes of a product page.
Matched(links, props, measurements) ==
    [links |-> links, props |-> props, measurements |-> measurements]

\* One requests.get: the URL, the User-Agent sent, the status of the response
\* ("none" when the call raised) and the number of nodes the selector matched.
Request(kind, url, status, found) ==
    [kind |-> kind, url |-> url, agent |-> "Mozilla/5.0", status |-> status,
     found |-> found]

\* -------------------------------------------------------------- get_hrefs

listing_url_base == <<"h", "t", "t", "p", "s", ":", "/", "/", "s", "m", "a", "r", "t", "e", "y", "e", "s", ".", "s", "e", "/", "g", "l", "a", "s", "o", "g", "o", "n", "/", "h", "e", "r", "r", "-", "b", "a", "g", "a", "r">>

page_query == <<"?", "p", "a", "g", "e", "=">>

RangeStart == 2

RangeStop == 101

\* The candidate list with the range running one page further.
urls_one_more ==
    <<listing_url_base>> \o
    [k \in 1..(RangeStop + 1 - RangeStart) |->
        listing_url_base \o page_query \o str(RangeStart + k - 1)]

\* The candidate listing URLs: the bare base URL, then ?page=2 .. ?page=100.
urls ==
    <<listing_url_base>> \o
    [k \in 1..(RangeStop - RangeStart) |->
        listing_url_base \o page_query \o str(RangeStart + k - 1)]

\* The href of the j-th product anchor of listing page p of the modelled site.
ProductHref(p, j) == <<"/", "g", "/">> \o str(10 * p + j)

\* What one listing page answers: the status, the number of marker-class
\* anchors in the body, and whether the first of them has no href attribute.
ListingResponses ==
    {[status |-> "200", count |-> c, bare |-> FALSE] : c \in 0..MaxAnchors}
    \cup {[status |-> "200", count |-> 1, bare |-> TRUE],
          [status |-> "503", count |-> 0, bare |-> FALSE]}

TailResponse == [status |-> "200", count |-> 1, bare |-> FALSE]

EmptyResponse == [status |-> "200", count |-> 0, bare |-> FALSE]

SeqsUpTo(S, n) == UNION {[1..m -> S] : m \in 0..n}

\* A site: its first pages are free, every later page has one product,
\* except page `hole`, which is empty (0: no such page).
Sites ==
    {[prefix |-> pre, hole |-> h] :
        pre \in SeqsUpTo(ListingResponses, MaxPrefix),
        h \in {0, MaxPrefix + 1, Len(urls)}}

\* The sites main is run against: they end right after the free pages.
MainSites ==
    {[prefix |-> pre, hole |-> Len(pre) + 1] :
        pre \in SeqsUpTo(ListingResponses, MaxMainPages)}

PageResponse(s, p) ==
    IF p <= Len(s.prefix) THEN s.prefix[p]
    ELSE IF p = s.hole THEN EmptyResponse
    ELSE TailResponse

\* soup.find_all("a", class_="product-block-images") on page p: the anchors,
\* each with its href attribute (None when the anchor has none).
find_all_links(s, p) ==
    LET r == PageResponse(s, p)
    IN  [j \in 1..r.count |->
            IF r.bare /\ j = 1 THEN None ELSE PyStr(ProductHref(p, j))]

\* The page of the site a listing URL names.
PageOf(url) == CHOOSE p \in 1..Len(urls) : urls[p] = url

\* The test with >= for >: an empty page no longer ends the loop.
page_has_links_never_stops(hrefs_tmp) == Len(hrefs_tmp) >= 0

\* len(hrefs_tmp) > 0
page_has_links(hrefs_tmp) == Len(hrefs_tmp) > 0

\* hrefs = hrefs_tmp for hrefs.extend(hrefs_tmp).
extend_overwrites(acc, hrefs_tmp) == hrefs_tmp

\* hrefs.extend(hrefs_tmp)
extend(acc, hrefs_tmp) == acc \o hrefs_tmp

\* One iteration of the for loop of get_hrefs, and the return that follows the
\* break or the last candidate URL.
get_hrefs_loop ==
    /\ pc = "get_hrefs"
    /\ page <= Len(urls)
    /\ LET url == urls[page]
       IN  \/ \* requests.get raises: nothing catches it
              /\ net' = Append(net, Request("listing", url, "none", 0))
              /\ pc' = "raised"
              /\ err' = "get_hrefs"
              /\ UNCHANGED <<hrefs, page, out, soup>>
           \/ LET p         == PageOf(url)
                  links     == find_all_links(site, p)
                  hrefs_tmp == [a \in 1..Len(links) |-> links[a]]
              IN  /\ net' = Append(net, Request("listing", url,
                                                PageResponse(site, p).status,
                                                Len(links)))
                  /\ soup' = Matched(links, <<>>, <<>>)
                  /\ err' = err
                  /\ IF page_has_links(hrefs_tmp)
                     THEN /\ hrefs' = extend(hrefs, hrefs_tmp)
                          /\ page' = page + 1
                          /\ out' = out
                          /\ pc' = IF page = Len(urls) THEN "got_hrefs"
                                   ELSE "get_hrefs"
                     ELSE /\ out' = Append(out, Line("last_page", PyStr(url),
                                                     <<>>, <<>>, 0))
                          /\ pc' = "got_hrefs"
                          /\ UNCHANGED <<hrefs, page>>
    /\ UNCHANGED <<site, i, result, fs, saves>>

\* ----------------------------------------------------- extract_dimensions

product_url_base == <<"h", "t", "t", "p", "s", ":", "/", "/", "w", "w", "w", ".", "s", "m", "a", "r", "t", "e", "y", "e", "s", ".", "s", "e">>

K_url == <<"u", "r", "l">>

K_bredd == <<"b", "r", "e", "d", "d">>

K_brygga == <<"b", "r", "y", "g", "g", "a">>

K_glasbredd == <<"g", "l", "a", "s", "b", "r", "e", "d", "d">>

K_skalmlangd == <<"s", "k", "a", "l", "m", "l", "a", "n", "g", "d">>

\* The keys of the dict `result`, in the order the literal lists them.
columns == <<K_url, K_bredd, K_brygga, K_glasbredd, K_skalmlangd>>

\* result = {"url": [], "bredd": [], "brygga": [], "glasbredd": [], "skalmlangd": []}
empty_result == [k \in {columns[c] : c \in 1..Len(columns)} |-> <<>>]

\* What a product page can hold: the texts of the nodes the property selector
\* matches and the texts of the nodes the measurement selector matches.
PageA ==
    [props |-> <<<<"B", "r", "e", "d", "d">>, <<"B", "r", "y", "g", "g", "a">>, <<"G", "l", "a", "s", "b", "r", "e", "d", "d">>, <<"S", "k", "a", "l", "m", "l", "ä", "n", "g", "d">>>>,
     measurements |-> <<<<"1", "4", "0", " ", "m", "m">>, <<"1", "8", " ", "m", "m">>, <<"5", "4", " ", "m", "m">>, <<"1", "5", "0", " ", "m", "m">>>>]

PageB ==
    [props |-> <<<<"B", "r", "e", "d", "d">>, <<"B", "r", "y", "g", "g", "a">>, <<"G", "l", "a", "s", "b", "r", "e", "d", "d">>, <<"S", "k", "a", "l", "m", "l", "ä", "n", "g", "d">>>>,
     measurements |-> <<<<"1", "4", "1", " ", "m", "m">>, <<"1", "9", " ", "m", "m">>, <<"5", "5", " ", "m", "m">>>>]

PageC ==
    [props |-> <<<<"B", "r", "e", "d", "d">>, <<"B", "r", "y", "g", "g", "a">>, <<"G", "l", "a", "s", "b", "r", "e", "d", "d">>, <<"S", "k", "a", "l", "m", "l", "ä", "n", "g", "d">>>>,
     measurements |-> <<<<"1", "4", "2", " ", "m", "m">>, <<"2", "0", " ", "m", "m">>, <<"a", "b", "c", " ", "m", "m">>, <<"1", "5", "2", " ", "m", "m">>>>]

PageUrlKey ==
    [props |-> <<<<"U", "R", "L">>, <<"B", "r", "e", "d", "d">>>>,
     measurements |-> <<<<"7", " ", "m", "m">>, <<"1", "3", "8", " ", "m", "m">>>>]

PageUnknownKey ==
    [props |-> <<<<"F", "ä", "r", "g">>, <<"B", "r", "y", "g", "g", "a">>>>,
     measurements |-> <<<<"3", " ", "m", "m">>, <<"1", "7", " ", "m", "m">>>>]

PageNoPairs == [props |-> <<>>, measurements |-> <<>>]

PagePadded ==
    [props |-> <<<<" ", "B", "R", "Y", "G", "G", "A", "\n">>>>,
     measurements |-> <<<<"\t", "1", "6", " ", "m", "m", " ">>>>]

PageNoSpace ==
    [props |-> <<<<"B", "r", "e", "d", "d">>, <<"B", "r", "y", "g", "g", "a">>>>,
     measurements |-> <<<<"5", "4", "m", "m">>, <<"-", "2", " ", "m", "m">>>>]

PageTwice ==
    [props |-> <<<<"B", "r", "e", "d", "d">>, <<"B", "r", "e", "d", "d">>>>,
     measurements |-> <<<<"1", " ", "m", "m">>, <<"2", " ", "m", "m">>>>]

ProductPages ==
    {PageA, PageB, PageC, PageUrlKey, PageUnknownKey, PageNoPairs, PagePadded,
     PageNoSpace, PageTwice}

\* The product pages of the site main is run against.
MainProductPages == {PageA, PageB}

\* The lists extract_dimensions is run on when it is run on its own: up to
\* MaxHrefs links as get_hrefs collects them, at most one of them None.
HrefInputs ==
    {[k \in 1..n |-> IF k = bare THEN None ELSE PyStr(ProductHref(1, k))] :
        n \in 0..MaxHrefs, bare \in 0..MaxHrefs}

\* key = prop.lower().replace("ä", "a")
field_key(prop) == replace(lower(prop), "ä", "a")

\* result[key] finds a list (KeyError otherwise).
key_found(res, key) == key \in DOMAIN res

\* The try block on one pair: result[key].append(int(measurement.split(" ")[0])),
\* and the except branch, which prints and goes on.  st = [result, out].
store_pair(st, href, prop_node, measurement_node) ==
    LET prop        == get_text(prop_node)
        measurement == get_text(measurement_node)
        key         == field_key(prop)
        value       == int(split_first(measurement))
    IN  IF key_found(st.result, key) /\ value.ok
        THEN [result |-> [st.result EXCEPT ![key] = Append(@, PyInt(value.val))],
              out    |-> st.out]
        ELSE [result |-> st.result,
              out    |-> Append(st.out, Line("invalid", href, measurement, key, 0))]

\* for i, _ in enumerate(measurements): the pairs from position k on.
RECURSIVE store_pairs(_, _, _, _, _)
store_pairs(st, href, props, measurements, k) ==
    IF k > Len(measurements) THEN st
    ELSE store_pairs(store_pair(st, href, props[k], measurements[k]),
                     href, props, measurements, k + 1)

\* The test that only asks for a name for every measurement.
lengths_match_shorter(props, measurements) == Len(measurements) <= Len(props)

\* len(props) == len(measurements)
lengths_match(props, measurements) == Len(props) = Len(measurements)

\* What the body of the loop does with a fetched page.  st = [result, out].
process_page(st, href, pg) ==
    IF lengths_match(pg.props, pg.measurements)
    THEN store_pairs(st, href, pg.props, pg.measurements, 1)
    ELSE [result |-> st.result,
          out    |-> Append(st.out, Line("mismatch", href, <<>>, <<>>, 0))]

\* result["url"].append(url)
record_url(res, url) == [res EXCEPT ![K_url] = Append(@, PyStr(url))]

\* One iteration of the for loop of extract_dimensions over hrefs, and the
\* return that follows the last link.  `pages` is what the site can answer.
extract_dimensions_loop(pages) ==
    /\ pc = "extract_dimensions"
    /\ i <= Len(hrefs)
    /\ LET href == hrefs[i]
       IN  IF href.kind # "str"
           THEN \* url_base + href raises TypeError
                /\ pc' = "raised"
                /\ err' = "extract_dimensions"
                /\ UNCHANGED <<i, result, out, net, soup>>
           ELSE LET url      == product_url_base \o href.s
                    recorded == record_url(result, url)
                IN  \/ \* requests.get raises: nothing catches it
                       /\ net' = Append(net, Request("product", url, "none", 0))
                       /\ result' = recorded
                       /\ pc' = "raised"
                       /\ err' = "extract_dimensions"
                       /\ UNCHANGED <<i, out, soup>>
                    \/ \E pg \in pages :
                         LET st == process_page([result |-> recorded, out |-> out],
                                                href, pg)
                         IN  /\ net' = Append(net, Request("product", url, "200",
                                                           Len(pg.measurements)))
                             /\ soup' = Matched(<<>>, pg.props, pg.measurements)
                             /\ result' = st.result
                             /\ out' = st.out
                             /\ i' = i + 1
                             /\ pc' = IF i = Len(hrefs) THEN "extracted"
                                      ELSE "extract_dimensions"
                             /\ err' = err
    /\ UNCHANGED <<site, hrefs, page, fs, saves>>

\* ------------------------------------------------------------ save_as_csv

\* The file system: whether data/ exists, whether the CSV file exists, its
\* lines, and how many times it has been written.
NoDirectory == [dir |-> FALSE, exists |-> FALSE, lines |-> <<>>, writes |-> 0]

EmptyDirectory == [dir |-> TRUE, exists |-> FALSE, lines |-> <<>>, writes |-> 0]

OldFile ==
    [dir |-> TRUE, exists |-> TRUE, lines |-> <<<<"u", "r", "l", ",", "b", "r", "e", "d", "d">>, <<"o", "l", "d", ",", "1">>>>, writes |-> 0]

FsStates == {NoDirectory, EmptyDirectory, OldFile}

\* if not os.path.exists(data_dir): os.makedirs(data_dir, exist_ok=True)
makedirs(f) == IF ~f.dir THEN [f EXCEPT !.dir = TRUE] ELSE f

\* pd.DataFrame(data) accepts the dict: all its lists have one length.
\* Otherwise it raises ValueError.
same_length(data) ==
    \A c \in 1..Len(columns) : Len(data[columns[c]]) = Len(data[columns[1]])

RECURSIVE join(_, _)
join(fields, sep) ==
    IF fields = <<>> THEN <<>>
    ELSE IF Len(fields) = 1 THEN fields[1]
    ELSE fields[1] \o sep \o join(Tail(fields), sep)

RECURSIVE double_quotes(_)
double_quotes(s) ==
    IF s = <<>> THEN <<>>
    ELSE (IF Head(s) = "\"" THEN <<"\"", "\"">> ELSE <<Head(s)>>)
         \o double_quotes(Tail(s))

\* One cell as to_csv writes it: an int in decimal, a str as it is, quoted
\* when it holds the delimiter, a quote or a line break.
csv_field(v) ==
    IF v.kind = "int" THEN str(v.n)
    ELSE IF v.kind = "none" THEN <<>>
    ELSE IF \E k \in 1..Len(v.s) : v.s[k] \in {",", "\"", "\n", "\r"}
         THEN <<"\"">> \o double_quotes(v.s) \o <<"\"">>
         ELSE v.s

\* df.to_csv(path, index=False): the header, then one line per row.
to_csv(data) ==
    <<join(columns, <<",">>)>> \o
    [r \in 1..Len(data[columns[1]]) |->
        join([c \in 1..Len(columns) |-> csv_field(data[columns[c]][r])], <<",">>)]

\* The file opened for appending.
write_file_appends(f, lines) ==
    [f EXCEPT !.exists = TRUE, !.lines = @ \o lines, !.writes = @ + 1]

\* The file opened for writing: what was there is replaced.
write_file(f, lines) ==
    [f EXCEPT !.exists = TRUE, !.lines = lines, !.writes = @ + 1]

\* save_as_csv(data), data being `result`.
save_as_csv ==
    /\ pc = "save_as_csv"
    /\ IF same_length(result)
       THEN /\ fs' = write_file(makedirs(fs), to_csv(result))
            /\ pc' = "saved"
            /\ saves' = saves + 1
            /\ err' = err
       ELSE /\ fs' = makedirs(fs)
            /\ pc' = "raised"
            /\ err' = "save_as_csv"
            /\ saves' = saves
    /\ UNCHANGED <<site, hrefs, page, i, result, out, net, soup>>

\* A caller that calls save_as_csv again with the same dict.
save_again ==
    /\ pc = "saved"
    /\ saves < MaxSaves
    /\ pc' = "save_as_csv"
    /\ UNCHANGED <<site, hrefs, page, i, result, fs, out, net, soup, err, saves>>

\* The dicts save_as_csv is run on when it is run on its own: up to MaxRows
\* rows; the column bredd may be shorter or longer than the others.
UrlCells ==
    {PyStr(product_url_base \o ProductHref(1, 1)),
     PyStr(product_url_base \o <<"/", "g", "/", "1", ",", "\"", "2", "\"">>),
     PyInt(7)}

BreddCells == {PyInt(140), PyInt(0 - 2)}

Tables ==
    {[k \in DOMAIN empty_result |->
        IF k = K_url THEN u
        ELSE IF k = K_bredd THEN b
        ELSE [r \in 1..Len(u) |-> PyInt(17 + r)]] :
        u \in SeqsUpTo(UrlCells, MaxRows), b \in SeqsUpTo(BreddCells, MaxRows)}

\* ------------------------------------------------------------------- main

\* tqdm.write("Scraping SmartEyes"); hrefs = get_hrefs() is entered.
main_start ==
    /\ pc = "main"
    /\ out' = Append(out, Line("scraping", None, <<>>, <<>>, 0))
    /\ hrefs' = <<>>
    /\ page' = 1
    /\ pc' = "get_hrefs"
    /\ UNCHANGED <<site, i, result, fs, net, soup, err, saves>>

\* dim = extract_dimensions(hrefs) is entered; with no link its loop body
\* never runs.
main_extract ==
    /\ pc = "got_hrefs"
    /\ result' = empty_result
    /\ i' = 1
    /\ pc' = IF hrefs = <<>> THEN "extracted" ELSE "extract_dimensions"
    /\ UNCHANGED <<site, hrefs, page, fs, out, net, soup, err, saves>>

\* save_as_csv(dim) entered also after extract_dimensions raised, as under an
\* except clause that goes on with what was extracted so far.
main_save_after_error ==
    /\ \/ pc = "extracted"
       \/ pc = "raised" /\ err = "extract_dimensions"
    /\ pc' = "save_as_csv"
    /\ UNCHANGED <<site, hrefs, page, i, result, fs, out, net, soup, err, saves>>

\* save_as_csv(dim) is entered.
main_save ==
    /\ pc = "extracted"
    /\ pc' = "save_as_csv"
    /\ UNCHANGED <<site, hrefs, page, i, result, fs, out, net, soup, err, saves>>

\* The two lines main prints after save_as_csv returned.
main_report ==
    /\ pc = "saved"
    /\ out' = out \o <<Line("found", None, <<>>, <<>>, Len(hrefs)),
                       Line("complete", None, <<>>, <<>>, 0)>>
    /\ pc' = "done"
    /\ UNCHANGED <<site, hrefs, page, i, result, fs, net, soup, err, saves>>

\* --------------------------------------------------------- specifications

\* main, against a site that ends after at most MaxMainPages listing pages.
Init ==
    /\ pc = "main"
    /\ site \in MainSites
    /\ hrefs = <<>>
    /\ page = 1
    /\ i = 1
    /\ result = empty_result
    /\ fs \in FsStates
    /\ out = <<>>
    /\ net = <<>>
    /\ soup = Matched(<<>>, <<>>, <<>>)
    /\ err = "none"
    /\ saves = 0

Next ==
    \/ main_start
    \/ get_hrefs_loop
    \/ main_extract
    \/ extract_dimensions_loop(MainProductPages)
    \/ main_save
    \/ save_as_csv
    \/ main_report

Spec == Init /\ [][Next]_vars

\* get_hrefs on its own, against every site of Sites.
InitGetHrefs ==
    /\ pc = "get_hrefs"
    /\ site \in Sites
    /\ hrefs = <<>>
    /\ page = 1
    /\ i = 1
    /\ result = empty_result
    /\ fs = NoDirectory
    /\ out = <<>>
    /\ net = <<>>
    /\ soup = Matched(<<>>, <<>>, <<>>)
    /\ err = "none"
    /\ saves = 0

NextGetHrefs == get_hrefs_loop

SpecGetHrefs == InitGetHrefs /\ [][NextGetHrefs]_vars

\* extract_dimensions on its own, on every list of HrefInputs.
InitExtract ==
    /\ hrefs \in HrefInputs
    /\ pc = IF hrefs = <<>> THEN "extracted" ELSE "extract_dimensions"
    /\ site = [prefix |-> <<>>, hole |-> 1]
    /\ page = 1
    /\ i = 1
    /\ result = empty_result
    /\ fs = NoDirectory
    /\ out = <<>>
    /\ net = <<>>
    /\ soup = Matched(<<>>, <<>>, <<>>)
    /\ err = "none"
    /\ saves = 0

NextExtract == extract_dimensions_loop(ProductPages)

SpecExtract == InitExtract /\ [][NextExtract]_vars

\* save_as_csv on its own, called up to MaxSaves times on every dict of Tables.
InitSave ==
    /\ pc = "save_as_csv"
    /\ result \in Tables
    /\ fs \in FsStates
    /\ site = [prefix |-> <<>>, hole |-> 1]
    /\ hrefs = <<>>
    /\ page = 1
    /\ i = 1
    /\ out = <<>>
    /\ net = <<>>
    /\ soup = Matched(<<>>, <<>>, <<>>)
    /\ err = "none"
    /\ saves = 0

NextSave == save_as_csv \/ save_again

SpecSave == InitSave /\ [][NextSave]_vars
\* ----------------------------------------------------------------- claims

\* The k-th candidate listing URL as the specification words it: the bare
\* base URL, then the base URL with ?page=k.
CandidateUrl(k) ==
    IF k = 1 THEN listing_url_base ELSE listing_url_base \o page_query \o str(k)

\* The first of the 100 candidate pages on which the site shows no product
\* anchor (0: every candidate page shows one).
FirstEmptyPage ==
    LET empty == {p \in 1..100 : PageResponse(site, p).count = 0}
    IN  IF empty = {} THEN 0 ELSE CHOOSE p \in empty : \A q \in empty : p <= q

\* The hrefs of the product anchors of the site's pages 1..n, page after page,
\* each page in document order.
RECURSIVE LinksOfPages(_, _)
LinksOfPages(s, n) ==
    IF n = 0 THEN <<>> ELSE LinksOfPages(s, n - 1) \o find_all_links(s, n)

\* The URL extract_dimensions builds for the k-th link.
UrlOfLink(k) == PyStr(product_url_base \o hrefs[k].s)

MeasurementKeys == {K_bredd, K_brygga, K_glasbredd, K_skalmlangd}

\* An iteration of the loop of extract_dimensions that parsed a page.
PageProcessed == pc = "extract_dimensions" /\ i' = i + 1

\* C1: when extract_dimensions returns, the column url holds exactly one entry
\* per product link, the k-th being the host prefixed to the k-th href; no
\* property/measurement pair adds, removes or alters an entry of it.
C1_OneUrlPerLink ==
    pc = "extracted" =>
        result[K_url] = [k \in 1..Len(hrefs) |-> UrlOfLink(k)]

\* C2: after any prefix of the product links has been processed, each of the
\* four measurement columns is as long as the column url, so that what was
\* parsed from the k-th product stands at row k and a field that could not be
\* parsed is absent in that product's row only.
C2_ColumnsAlignedWithUrl ==
    pc \in {"extract_dimensions", "extracted"} =>
        \A k \in MeasurementKeys : Len(result[k]) = Len(result[K_url])

\* C3: listing pages are requested in increasing page order; after a page
\* with no product anchor no further listing page is requested, so the number
\* of listing requests is the number of the first empty page, and the URL of
\* that page is reported exactly once.
C3_StopsAtFirstEmptyPage ==
    /\ \A k \in 1..Len(net) :
          net[k].kind = "listing" /\ net[k].url = CandidateUrl(k)
    /\ FirstEmptyPage # 0 => Len(net) <= FirstEmptyPage
    /\ (pc = "got_hrefs" /\ FirstEmptyPage # 0) =>
          /\ Len(net) = FirstEmptyPage
          /\ out = <<Line("last_page", PyStr(CandidateUrl(FirstEmptyPage)),
                          <<>>, <<>>, 0)>>
    /\ pc = "get_hrefs" => out = <<>>

\* A run that stopped at an empty second page although the third page of the
\* site has a product.
C3_Witness ==
    /\ pc = "got_hrefs"
    /\ FirstEmptyPage = 2
    /\ PageResponse(site, 3).count > 0
    /\ Len(net) = 2

\* C4: get_hrefs returns the hrefs of the product anchors of every page before
\* the first empty page (of all 100 candidate pages if none is empty), in page
\* order and within a page in document order: none dropped, duplicated or
\* reordered, none from the empty page or a later one.
C4_ReturnsLinksBeforeFirstEmptyPage ==
    /\ pc = "got_hrefs" =>
          hrefs = LinksOfPages(site, IF FirstEmptyPage = 0 THEN 100
                                     ELSE FirstEmptyPage - 1)
    /\ pc = "get_hrefs" => hrefs = LinksOfPages(site, Len(net))

\* A run that returned the two links of each of two pages and stopped at an
\* empty third page although the fourth page has a product.
C4_Witness ==
    /\ pc = "got_hrefs"
    /\ FirstEmptyPage = 3
    /\ Len(hrefs) = 4
    /\ PageResponse(site, 4).count > 0

\* The values the claim C5 has a page add to column k: those of the pairs from
\* position p on whose normalized key is k and whose first token is an integer.
RECURSIVE C5_Stored(_, _, _, _)
C5_Stored(k, props, measurements, p) ==
    IF p > Len(measurements) THEN <<>>
    ELSE LET key   == field_key(get_text(props[p]))
             value == int(split_first(get_text(measurements[p])))
         IN  (IF key = k /\ value.ok THEN <<PyInt(value.val)>> ELSE <<>>)
             \o C5_Stored(k, props, measurements, p + 1)

\* The pairs of a page that the claim C5 has skipped with a diagnostic.
C5_Skipped(props, measurements) ==
    {p \in 1..Len(measurements) :
        \/ field_key(get_text(props[p])) \notin MeasurementKeys
        \/ ~int(split_first(get_text(measurements[p]))).ok}

\* C5: on a page whose two lists have equal length, a pair is stored if and
\* only if its normalized key is one of bredd, brygga, glasbredd, skalmlangd
\* and the token before the first space of its value is an integer; any other
\* pair, a pair whose key is url included, is skipped with a diagnostic and
\* changes no column, and the other pairs of the page are stored.
C5_OnlyKnownFieldsStored ==
    [][(PageProcessed /\ Len(soup'.props) = Len(soup'.measurements)) =>
          /\ result'[K_url] = Append(result[K_url], UrlOfLink(i))
          /\ \A k \in MeasurementKeys :
                result'[k] = result[k] \o
                             C5_Stored(k, soup'.props, soup'.measurements, 1)
          /\ Len(out') = Len(out) +
                         Cardinality(C5_Skipped(soup'.props, soup'.measurements))
      ]_vars

\* C6: when the two lists of a product page differ in length, processing the
\* page appends the product's URL, leaves the four measurement columns as they
\* were, prints one diagnostic naming the link, and goes on to the next link.
C6_MismatchSkipsPage ==
    [][(PageProcessed /\ Len(soup'.props) # Len(soup'.measurements)) =>
          /\ result'[K_url] = Append(result[K_url], UrlOfLink(i))
          /\ \A k \in MeasurementKeys : result'[k] = result[k]
          /\ out' = Append(out, Line("mismatch", hrefs[i], <<>>, <<>>, 0))
          /\ pc' = IF i < Len(hrefs) THEN "extract_dimensions" ELSE "extracted"
      ]_vars

\* A page with four property names and three measurements has been processed
\* after a fully populated one, and a further link is about to be processed.
C6_Witness ==
    /\ pc = "extract_dimensions"
    /\ i = 3
    /\ Len(soup.props) = 4
    /\ Len(soup.measurements) = 3
    /\ Len(result[K_url]) = 2
    /\ Len(result[K_bredd]) = 1
    /\ Len(out) = 1
    /\ out[1].kind = "mismatch"

\* C7: a call of save_as_csv on a dict of equal-length lists leaves data/
\* present and the file holding the header url,bredd,brygga,glasbredd,skalmlangd
\* followed by one line per row, whatever was there before; a second call with
\* the same dict leaves the directory and the file's content as the first did.
C7_SaveIsIdempotent ==
    [][(pc = "save_as_csv" /\ pc' = "saved") =>
          /\ fs'.dir /\ fs'.exists
          /\ Len(fs'.lines) = 1 + Len(result[K_url])
          /\ fs'.lines[1] = <<"u", "r", "l", ",", "b", "r", "e", "d", "d", ",", "b", "r", "y", "g", "g", "a", ",", "g", "l", "a", "s", "b", "r", "e", "d", "d", ",", "s", "k", "a", "l", "m", "l", "a", "n", "g", "d">>
          /\ \A r \in 1..Len(result[K_url]) :
                fs'.lines[r + 1] # fs'.lines[1] /\ fs'.lines[r + 1] # <<>>
          /\ saves >= 1 => (fs'.lines = fs.lines /\ fs'.dir = fs.dir
                            /\ fs'.exists = fs.exists)
      ]_vars

\* save_as_csv has returned twice on a dict of two rows.
C7_Witness ==
    /\ pc = "saved"
    /\ saves = 2
    /\ fs.writes = 2
    /\ Len(result[K_url]) = 2
    /\ Len(fs.lines) = 3

\* C8: a listing request that fails at the transport level or is answered with
\* a non-success status aborts the run; it is never taken for the empty page
\* that ends pagination, and never skipped.
C8_FailedListingRequestAborts ==
    \A k \in 1..Len(net) :
        (net[k].kind = "listing" /\ net[k].status # "200") =>
            (pc = "raised" /\ err = "get_hrefs")

ProductRequests == {k \in 1..Len(net) : net[k].kind = "product"}

ListingRequests == {k \in 1..Len(net) : net[k].kind = "listing"}

\* C9: main runs collect, extract, write in this order: every product request
\* follows the last listing request, the file is written only after every link
\* has been processed, and once a stage has raised nothing further runs: no
\* file is written and no count is reported after a failed collection or
\* extraction.
C9_StagesInStrictOrder ==
    /\ \A a \in ProductRequests : \A b \in ListingRequests : b < a
    /\ ProductRequests # {} => pc \notin {"main", "get_hrefs", "got_hrefs"}
    /\ fs.writes > 0 =>
          /\ pc \in {"saved", "done"}
          /\ i = Len(hrefs) + 1
          /\ Cardinality(ProductRequests) = Len(hrefs)
          /\ err = "none"
    /\ (\E k \in 1..Len(out) : out[k].kind = "found") =>
          (pc = "done" /\ fs.writes = 1 /\ err = "none")
    /\ err # "none" => (pc = "raised" /\ ~ENABLED Next)
    /\ err \in {"get_hrefs", "extract_dimensions"} => fs.writes = 0
    /\ err = "get_hrefs" => ProductRequests = {}

\* main has run to its end over two product links.
C9_Witness ==
    /\ pc = "done"
    /\ Len(hrefs) = 2
    /\ Cardinality(ProductRequests) = 2
    /\ Cardinality(ListingRequests) = 2
    /\ fs.writes = 1

\* C10: get_hrefs issues at most 100 listing requests, the bare base URL and
\* ?page=2 .. ?page=100, each once, every iteration using up one candidate; if
\* all 100 pages have products it returns the links of these 100 pages without
\* a further request, without raising and without the terminal-page message.
C10_AtMostHundredRequests ==
    /\ Len(net) <= 100
    /\ \A k \in 1..Len(net) : net[k].url = CandidateUrl(k)
    /\ pc = "get_hrefs" => (page = Len(net) + 1 /\ page <= 100)
    /\ (pc = "got_hrefs" /\ FirstEmptyPage = 0) =>
          /\ Len(net) = 100
          /\ hrefs = LinksOfPages(site, 100)
          /\ out = <<>>
          /\ err = "none"

\* get_hrefs has returned after 100 requests, none of them for an empty page.
C10_Witness ==
    /\ pc = "got_hrefs"
    /\ FirstEmptyPage = 0
    /\ Len(net) = 100
    /\ Len(hrefs) >= 100
    /\ out = <<>>

====
